---- MODULE Spec2Model ----
(***************************************************************************)
(* Dual AI Chat: the discussion orchestrator (handleSendMessage,           *)
(* handleClearChat) of both App components of the repository, and the      *)
(* response parser they share.                                             *)
(*                                                                         *)
(* Strings are sequences of one-character strings.  The three protocol     *)
(* tags are short strings over the same alphabet, so that the parser's     *)
(* index arithmetic, trimming and global replacement are computed, not     *)
(* assumed.                                                                *)
(***************************************************************************)
EXTENDS Integers, Sequences, FiniteSets, TLC

(* ------------------------------ bounds -------------------------------- *)

\* a new query is submitted only while the transcript has at most this many entries
MaxTranscript == 4

\* with overlapping invocations, Gateway calls settle only while the
\* transcript has fewer entries than this
MaxOverlapTranscript == 6

\* the raw texts handed to the parser on its own have at most this many characters
MaxResponseLen == 5

(* ------------------------- constants.ts ------------------------------- *)

DEFAULT_MANUAL_FIXED_TURNS == 2
MIN_MANUAL_FIXED_TURNS == 1
MAX_MANUAL_FIXED_TURNS == 5
MAX_AI_DRIVEN_DISCUSSION_TURNS_PER_MODEL == 3

FixedTurns == "fixed"
AiDriven == "ai-driven"
DiscussionMode == {FixedTurns, AiDriven}

INITIAL_NOTEPAD_CONTENT == <<"I">>
NOTEPAD_UPDATE_TAG_START == <<"s">>
NOTEPAD_UPDATE_TAG_END == <<"e">>
DISCUSSION_COMPLETE_TAG == <<"d", "c">>

(* ----------------------------- types.ts ------------------------------- *)

User == "User"
Cognito == "Cognito"
Muse == "Muse"
System == "System"
MessageSender == {User, Cognito, Muse, System}

UserInput == "user-input"
SystemNotification == "system-notification"
CognitoToMuse == "cognito-to-muse"
MuseToCognito == "muse-to-cognito"
FinalResponse == "final-response"
MessagePurpose == {UserInput, SystemNotification, CognitoToMuse, MuseToCognito, FinalResponse}

\* the null of `string | null` and of `MessageSender | null`
NullText == <<"null">>
NoSender == "null"

(* ------------------- JavaScript string primitives --------------------- *)

MinOf(S) == CHOOSE x \in S : \A y \in S : x <= y
MaxOf(S) == CHOOSE x \in S : \A y \in S : x >= y

\* variant: the text is taken as it is
TrimNothing(s) == s

\* String.prototype.trim
Trim(s) ==
  LET keep == {i \in 1..Len(s) : s[i] # " "}
  IN IF keep = {} THEN <<>> ELSE SubSeq(s, MinOf(keep), MaxOf(keep))

\* 0-based positions at which t occurs in s
Occurrences(s, t) ==
  {i \in 0..(Len(s) - Len(t)) : SubSeq(s, i + 1, i + Len(t)) = t}

\* variant: the first occurrence is taken
FirstIndexOf(s, t) ==
  IF Occurrences(s, t) = {} THEN -1 ELSE MinOf(Occurrences(s, t))

\* String.prototype.lastIndexOf
LastIndexOf(s, t) ==
  IF Occurrences(s, t) = {} THEN -1 ELSE MaxOf(Occurrences(s, t))

\* variant: the text is looked for anywhere
EndsWithAnywhere(s, t) ==
  \E i \in 0..(Len(s) - Len(t)) : SubSeq(s, i + 1, i + Len(t)) = t

\* String.prototype.endsWith
EndsWith(s, t) ==
  Len(s) >= Len(t) /\ SubSeq(s, Len(s) - Len(t) + 1, Len(s)) = t

\* String.prototype.includes
Includes(s, t) == Occurrences(s, t) # {}

\* String.prototype.substring(a, b) for 0 <= a <= b <= length
Substring(s, a, b) == SubSeq(s, a + 1, b)

\* String.prototype.replace(new RegExp(escaped t, 'g'), ""): leftmost,
\* non-overlapping matches are removed in one left-to-right pass
RECURSIVE RemoveAll(_, _)
RemoveAll(s, t) ==
  IF Len(s) < Len(t) THEN s
  ELSE IF SubSeq(s, 1, Len(t)) = t
       THEN RemoveAll(SubSeq(s, Len(t) + 1, Len(s)), t)
       ELSE <<s[1]>> \o RemoveAll(Tail(s), t)

(* --------------------------- parseAIResponse -------------------------- *)

UpdatedNotepadText == "updated the notepad"
\* variant: an empty block is reported as an update
EmptyNotepadTextUpdated == "updated the notepad"

EmptyNotepadText == "attempted to update the notepad but the content was empty"
SuggestedEndText == "suggested ending the discussion"
\* variant: nothing stands in for a missing reply
NoTextPlaceholderBlank == <<>>

NoTextPlaceholder == <<"(AI provided no additional text response)">>

\* variant: the stop tag is looked for in the whole text
parseAIResponseStopAnywhere(responseText) ==
  LET currentText == Trim(responseText)
      notepadStartIndex == LastIndexOf(currentText, NOTEPAD_UPDATE_TAG_START)
      notepadEndIndex == LastIndexOf(currentText, NOTEPAD_UPDATE_TAG_END)
      hasBlock == /\ notepadStartIndex # -1
                  /\ notepadEndIndex # -1
                  /\ notepadEndIndex > notepadStartIndex
                  /\ EndsWith(currentText, NOTEPAD_UPDATE_TAG_END)
      newNotepadContent ==
        IF hasBlock
        THEN Trim(Substring(currentText,
                            notepadStartIndex + Len(NOTEPAD_UPDATE_TAG_START),
                            notepadEndIndex))
        ELSE NullText
      notepadActionText ==
        IF ~hasBlock THEN ""
        ELSE IF newNotepadContent # <<>> THEN UpdatedNotepadText
        ELSE EmptyNotepadText
      spoken1 == IF hasBlock
                 THEN Trim(Substring(currentText, 0, notepadStartIndex))
                 ELSE currentText
      discussionShouldEnd == Includes(currentText, DISCUSSION_COMPLETE_TAG)
      spoken2 == IF discussionShouldEnd
                 THEN Trim(RemoveAll(spoken1, DISCUSSION_COMPLETE_TAG))
                 ELSE spoken1
      discussionActionText == IF discussionShouldEnd THEN SuggestedEndText ELSE ""
      spoken3 ==
        IF Trim(spoken2) # <<>> THEN spoken2
        ELSE IF notepadActionText # "" /\ discussionActionText # ""
             THEN <<"(AI ", notepadActionText, " and ", discussionActionText, ")">>
        ELSE IF notepadActionText # ""
             THEN <<"(AI ", notepadActionText, ")">>
        ELSE IF discussionActionText # ""
             THEN <<"(AI ", discussionActionText, ")">>
        ELSE NoTextPlaceholder
  IN [spokenText |-> Trim(spoken3),
      newNotepadContent |-> newNotepadContent,
      discussionShouldEnd |-> discussionShouldEnd]

parseAIResponse(responseText) ==
  LET currentText == Trim(responseText)
      notepadStartIndex == LastIndexOf(currentText, NOTEPAD_UPDATE_TAG_START)
      notepadEndIndex == LastIndexOf(currentText, NOTEPAD_UPDATE_TAG_END)
      hasBlock == /\ notepadStartIndex # -1
                  /\ notepadEndIndex # -1
                  /\ notepadEndIndex > notepadStartIndex
                  /\ EndsWith(currentText, NOTEPAD_UPDATE_TAG_END)
      newNotepadContent ==
        IF hasBlock
        THEN Trim(Substring(currentText,
                            notepadStartIndex + Len(NOTEPAD_UPDATE_TAG_START),
                            notepadEndIndex))
        ELSE NullText
      notepadActionText ==
        IF ~hasBlock THEN ""
        ELSE IF newNotepadContent # <<>> THEN UpdatedNotepadText
        ELSE EmptyNotepadText
      spoken1 == IF hasBlock
                 THEN Trim(Substring(currentText, 0, notepadStartIndex))
                 ELSE currentText
      discussionShouldEnd == Includes(spoken1, DISCUSSION_COMPLETE_TAG)
      spoken2 == IF discussionShouldEnd
                 THEN Trim(RemoveAll(spoken1, DISCUSSION_COMPLETE_TAG))
                 ELSE spoken1
      discussionActionText == IF discussionShouldEnd THEN SuggestedEndText ELSE ""
      spoken3 ==
        IF Trim(spoken2) # <<>> THEN spoken2
        ELSE IF notepadActionText # "" /\ discussionActionText # ""
             THEN <<"(AI ", notepadActionText, " and ", discussionActionText, ")">>
        ELSE IF notepadActionText # ""
             THEN <<"(AI ", notepadActionText, ")">>
        ELSE IF discussionActionText # ""
             THEN <<"(AI ", discussionActionText, ")">>
        ELSE NoTextPlaceholder
  IN [spokenText |-> Trim(spoken3),
      newNotepadContent |-> newNotepadContent,
      discussionShouldEnd |-> discussionShouldEnd]

(* ------------------------------ the state ------------------------------ *)

\* which App component is mounted: src/App.tsx or the second App component
AppRoot == "App.tsx"
AppDual == "part_004"
Apps == {AppRoot, AppDual}

VARIABLES
  app,                      \* the mounted App component
  messages,                 \* useState<ChatMessage[]>
  isLoading,                \* useState<boolean>
  isApiKeyMissing,          \* useState<boolean>
  notepadContent,           \* useState<string>
  lastNotepadUpdateBy,      \* useState<MessageSender | null>
  discussionMode,           \* useState<DiscussionMode>
  manualFixedTurns,         \* useState<number>
  currentQueryStartTimeRef, \* useRef<number | null>, NoTime is null
  cancelRequestRef,         \* useRef<boolean>
  runs,                     \* the invocations of handleSendMessage that can be suspended
  responseText,             \* the argument of parseAIResponse when it is run on its own
  parsedResponse,           \* what it returned, in a sequence: empty until it has run
  gatewayCall,              \* a backend and the circumstances of one call made to it
  gatewayResult             \* how that call settled, in a sequence: empty until it has

appVars == <<app, messages, isLoading, isApiKeyMissing, notepadContent,
             lastNotepadUpdateBy, discussionMode, manualFixedTurns,
             currentQueryStartTimeRef, cancelRequestRef, runs>>

parserVars == <<responseText, parsedResponse>>

gatewayVars == <<gatewayCall, gatewayResult>>

vars == <<appVars, parserVars, gatewayVars>>

\* an invocation is known by the slot it occupies while it is suspended
RunIds == {1, 2}
NoTime == 0
NoRun == 0

\* positions of an invocation: not started, suspended at an await, returned
AwaitFile == "await fileToBase64"
AwaitCognito == "await Cognito"
AwaitMuse == "await Muse"
AwaitCognitoReply == "await Cognito reply"
AwaitFinal == "await final"
GatewayAwaits == {AwaitCognito, AwaitMuse, AwaitCognitoReply, AwaitFinal}

\* one ChatMessage; run is the invocation that called addMessage (NoRun: none)
Msg(text, sender, purpose, r) ==
  [text |-> text, sender |-> sender, purpose |-> purpose, run |-> r]

NumText(n) == <<"0", "1", "2", "3", "4", "5">>[n + 1]

getWelcomeMessageText(mode, turns) ==
  IF mode = FixedTurns
  THEN <<"Welcome to Dual AI Chat!", "fixed turns", NumText(turns)>>
  ELSE <<"Welcome to Dual AI Chat!", "AI driven">>

KeyWarningText == <<"Critical Warning: API_KEY is not configured">>
AgreedText == <<"Both AIs have agreed to end the discussion">>
MaxTurnsText == <<"Maximum discussion turns reached in AI-driven mode">>
SuggestedText(who) == <<who, " suggested ending the discussion, waiting for the other">>
PreparingText(who) == <<who, " is preparing">>
ImageFailedText == <<"Image processing failed">>
ErrorText(msg) == <<"Error: ">> \o msg
KeyErrorText(msg) == <<"Error: ">> \o msg \o <<" Please check your API key configuration">>

\* the local variables and the captured render values of one invocation
IdleRun ==
  [pc |-> "idle",
   mode |-> FixedTurns,      \* discussionMode of the render that made the handler
   maxTurns |-> 0,           \* manualFixedTurns of that render
   notepad |-> <<>>,         \* notepadContent of that render
   input |-> <<>>,           \* userInput
   image |-> FALSE,          \* imageFile given
   blob |-> FALSE,           \* an object URL of the image is live
   turn |-> 0,               \* turn / currentTurn
   prevStop |-> FALSE,       \* previousAISignaledStop
   complete |-> FALSE,       \* discussionComplete
   log |-> <<>>,             \* discussionLog
   calls |-> <<>>,           \* history: the Gateway calls issued
   sigs |-> <<>>,            \* history: stop signals of the turns parsed in AiDriven mode
   sawStop |-> FALSE,        \* history: some parsed turn carried the stop signal
   cancelled |-> FALSE,      \* history: the flag was set while this was suspended
   cancelHit |-> FALSE,      \* history: the flag was set while a call was pending
   late |-> FALSE,           \* history: committed something after cancelHit
   staleDoc |-> FALSE,       \* history: a prompt embedded a notepad text of the past
   shortLog |-> FALSE,       \* history: a later prompt left out a committed turn
   failed |-> FALSE,         \* history: a Gateway call returned with error populated
   threw |-> FALSE]          \* history: a Gateway call rejected

(* ------------------------- the Model Gateway --------------------------- *)

\* texts with a notepad block that holds nothing, or blanks only
BlankBlockResponses ==
  { <<"x", "s", "e">>,
    <<"x", "s", " ", "e">> }

\* raw texts a model returns: plain, with the stop tag, with a notepad
\* block, with an empty notepad block
Responses ==
  { <<"x">>,
    <<"x", "d", "c">>,
    <<"x", "s", "x", "e">> } \cup BlankBlockResponses

OkResults == {[kind |-> "ok", text |-> t, error |-> ""] : t \in Responses}

\* geminiService: an invalid key, and any other failure
ErrorResults ==
  { [kind |-> "error", text |-> <<"API key invalid">>, error |-> "API key not valid"],
    [kind |-> "error", text |-> <<"Error communicating with AI">>, error |-> "network"] }

\* aiService.generateResponse rejects when no provider is configured
ThrownResults ==
  { [kind |-> "throw", text |-> <<"AI service not initialized">>, error |-> ""] }

GatewayResults ==
  IF app = AppDual THEN OkResults \cup ErrorResults \cup ThrownResults
  ELSE OkResults \cup ErrorResults

\* the backends: the GrokService class, the OpenAI-compatible service, the
\* Gemini service, the axios client of Grok, and the dispatcher aiService
GrokService == "grokService.ts"
OpenAICompatibleService == "openAICompatibleService.ts"
GeminiService == "geminiService.ts"
AxiosGrok == "part_000"
AiService == "aiService.ts"
Backends == {GrokService, OpenAICompatibleService, GeminiService, AxiosGrok, AiService}

\* what can go wrong with a call: the key is not there, the HTTP status is
\* not OK, the request itself raises
NoFailure == "none"
KeyMissing == "key missing"
StatusNotOk == "status not ok"
RequestRaises == "request raises"
Failures == {NoFailure, KeyMissing, StatusNotOk, RequestRaises}

Resolved(text) == [kind |-> "ok", text |-> text, error |-> ""]
ResolvedError(text, error) == [kind |-> "error", text |-> text, error |-> error]
Rejected(text) == [kind |-> "throw", text |-> text, error |-> ""]

\* GrokService.generateResponse: every failure is returned
GrokServiceGenerate(failure, text) ==
  IF failure = KeyMissing
  THEN ResolvedError(<<"Grok API key is not configured">>, "API key not valid")
  ELSE IF failure = StatusNotOk
  THEN ResolvedError(<<"errorText">>, "Grok API error")
  ELSE IF failure = RequestRaises
  THEN ResolvedError(<<"errorMessage">>, "Network error")
  ELSE Resolved(text)

\* openAICompatibleService.generateResponse: what is thrown inside the try is
\* caught and returned
OpenAICompatibleGenerate(failure, text) ==
  IF failure = NoFailure THEN Resolved(text)
  ELSE ResolvedError(<<"Error communicating with AI">>, "error.message")

\* geminiService.generateResponse: the same shape
GeminiGenerate(failure, text) ==
  IF failure = NoFailure THEN Resolved(text)
  ELSE ResolvedError(<<"Error communicating with AI">>, "error.message")

\* generateResponse of the axios client: catch (error) { throw error }
AxiosGrokGenerate(failure, text) ==
  IF failure = NoFailure THEN Resolved(text)
  ELSE Rejected(<<"axios error">>)

\* aiService.generateResponse: throws when initializeAI has not been called,
\* else hands the call to the service of the configured provider
AiServiceGenerate(configured, provider, failure, text) ==
  IF ~configured THEN Rejected(<<"AI service not initialized">>)
  ELSE IF provider = GeminiService THEN GeminiGenerate(failure, text)
  ELSE OpenAICompatibleGenerate(failure, text)

\* one call: the backend, whether aiService has a configuration and of which
\* provider, what goes wrong, and the text the model would reply
GatewayCalls ==
  [backend : Backends, configured : BOOLEAN,
   provider : {GeminiService, OpenAICompatibleService},
   failure : Failures, text : Responses]

NoCall == [backend |-> "none", configured |-> FALSE, provider |-> GeminiService,
           failure |-> NoFailure, text |-> <<>>]

generateResponse(call) ==
  IF call.backend = GrokService THEN GrokServiceGenerate(call.failure, call.text)
  ELSE IF call.backend = OpenAICompatibleService
  THEN OpenAICompatibleGenerate(call.failure, call.text)
  ELSE IF call.backend = GeminiService THEN GeminiGenerate(call.failure, call.text)
  ELSE IF call.backend = AxiosGrok THEN AxiosGrokGenerate(call.failure, call.text)
  ELSE AiServiceGenerate(call.configured, call.provider, call.failure, call.text)

\* error.includes("API key not valid")
IncludesKeyNotValid(error) == error = "API key not valid"
\* errorMessageText.includes("API_KEY 未配置") || includes("API密钥无效")
IncludesKeyMessage(text) == text = <<"API key invalid">>

(* ------------------ the state as one value, and its steps -------------- *)

\* the component state a handler reads and writes while it runs
Cur ==
  [messages |-> messages,
   isLoading |-> isLoading,
   isApiKeyMissing |-> isApiKeyMissing,
   notepadContent |-> notepadContent,
   lastNotepadUpdateBy |-> lastNotepadUpdateBy,
   currentQueryStartTimeRef |-> currentQueryStartTimeRef,
   cancelRequestRef |-> cancelRequestRef,
   runs |-> runs]

Becomes(S) ==
  /\ messages' = S.messages
  /\ isLoading' = S.isLoading
  /\ isApiKeyMissing' = S.isApiKeyMissing
  /\ notepadContent' = S.notepadContent
  /\ lastNotepadUpdateBy' = S.lastNotepadUpdateBy
  /\ currentQueryStartTimeRef' = S.currentQueryStartTimeRef
  /\ cancelRequestRef' = S.cancelRequestRef
  /\ runs' = S.runs

\* addMessage called by invocation r
addMessage(S, text, sender, purpose, r) ==
  [S EXCEPT !.messages = Append(@, Msg(text, sender, purpose, r)),
            !.runs[r].late = @ \/ S.runs[r].cancelHit]

\* variant: the notepad is written whatever was parsed
applyNotepadAlways(S, parsed, sender, r) ==
  [S EXCEPT !.notepadContent = parsed.newNotepadContent,
            !.lastNotepadUpdateBy = sender,
            !.runs[r].late = @ \/ S.runs[r].cancelHit]

\* if (parsed.newNotepadContent !== null) { setNotepadContent; setLastNotepadUpdateBy }
applyNotepad(S, parsed, sender, r) ==
  IF parsed.newNotepadContent # NullText
  THEN [S EXCEPT !.notepadContent = parsed.newNotepadContent,
                 !.lastNotepadUpdateBy = sender,
                 !.runs[r].late = @ \/ S.runs[r].cancelHit]
  ELSE S

\* the finally block; the invocation has returned
finallyBlock(S, r) ==
  [S EXCEPT !.isLoading = FALSE,
            !.currentQueryStartTimeRef = NoTime,
            !.runs[r].blob = FALSE,
            !.runs[r].pc = "done"]

\* what a prompt of invocation r embeds: NOTEPAD_INSTRUCTION_PROMPT_PART with
\* the notepadContent of the handler's render, the discussion log, the query
promptOf(S, r) ==
  IF app = AppDual
  THEN [notepad |-> S.runs[r].notepad, discussion |-> S.runs[r].log, query |-> TRUE]
  ELSE [notepad |-> S.runs[r].notepad, discussion |-> <<>>,
        query |-> S.runs[r].turn = 0]

\* the AI turns invocation r has in the transcript, as the log would list them
saidBy(S, r) ==
  LET spoken == SelectSeq(S.messages, LAMBDA m : m.run = r /\ m.sender \in {Cognito, Muse})
  IN [i \in 1..Len(spoken) |-> [by |-> spoken[i].sender, text |-> spoken[i].text]]

\* await generateResponse(prompt, ...): the call is issued and the invocation suspends
callGateway(S, r, persona, isFinal, pc) ==
  [S EXCEPT !.runs[r].calls = Append(@, [to |-> persona, final |-> isFinal]),
            !.runs[r].staleDoc = @ \/ promptOf(S, r).notepad # S.notepadContent,
            !.runs[r].shortLog =
               @ \/ (/\ S.runs[r].calls # <<>>
                     /\ \/ promptOf(S, r).discussion # saidBy(S, r)
                        \/ ~promptOf(S, r).query),
            !.runs[r].pc = pc]

\* variant: every error counts as a credential error
noteKeyErrorAlways(S, res) == [S EXCEPT !.isApiKeyMissing = TRUE]

\* if (result.error.includes("API key not valid")) setIsApiKeyMissing(true)
noteKeyError(S, res) ==
  IF IncludesKeyNotValid(res.error) THEN [S EXCEPT !.isApiKeyMissing = TRUE] ELSE S

\* history: a parsed discussion turn and its stop signal
noteSignal(S, r, persona, parsed) ==
  [S EXCEPT !.runs[r].sawStop = @ \/ parsed.discussionShouldEnd,
            !.runs[r].sigs =
               IF S.runs[r].mode = AiDriven
               THEN Append(@, [by |-> persona, stop |-> parsed.discussionShouldEnd,
                               call |-> Len(S.runs[r].calls)])
               ELSE @]

\* parseAIResponse applied to each text a successful call can return
ParsedResponses == [t \in Responses |-> parseAIResponse(t)]

\* nothing is parsed when the call failed
NoParse == [spokenText |-> <<>>, newNotepadContent |-> NullText,
            discussionShouldEnd |-> FALSE]

\* parseAIResponse(result.text), which the handler evaluates past its error test
ParsedOf(res) == IF res.kind = "ok" THEN ParsedResponses[res.text] ELSE NoParse

(* --------------- handleSendMessage of the second App component --------- *)

\* variant: the error handler takes back what the notepad was given
DualCatchRollsBack(S, r, text) ==
  IF S.cancelRequestRef THEN finallyBlock(S, r)
  ELSE finallyBlock(
         addMessage([S EXCEPT !.notepadContent = INITIAL_NOTEPAD_CONTENT,
                              !.lastNotepadUpdateBy = NoSender],
                    ErrorText(text), System, SystemNotification, r), r)

\* catch (error) { if (cancelRequestRef.current) return; ... addMessage(error) } finally
DualCatch(S, r, text) ==
  IF S.cancelRequestRef THEN finallyBlock(S, r)
  ELSE IF IncludesKeyMessage(text)
       THEN finallyBlock(
              addMessage([S EXCEPT !.isApiKeyMissing = TRUE],
                         KeyErrorText(text), System, SystemNotification, r), r)
       ELSE finallyBlock(
              addMessage(S, ErrorText(text), System, SystemNotification, r), r)

\* a call returned with error populated: flag the key, throw into the catch
DualOnError(S, r, res) ==
  DualCatch([noteKeyError(S, res) EXCEPT !.runs[r].failed = TRUE], r, res.text)

\* the awaited call rejected: into the catch
DualOnThrow(S, r, res) ==
  DualCatch([S EXCEPT !.runs[r].threw = TRUE], r, res.text)

\* after the loop: the final synthesis call
DualAfterLoop(S, r) ==
  IF S.cancelRequestRef THEN finallyBlock(S, r)
  ELSE callGateway(
         addMessage(S, PreparingText("final answer"), System, SystemNotification, r),
         r, Cognito, TRUE, AwaitFinal)

\* variant: the loop ceiling follows the settings of the latest render
maxTurnsForLoopLive(me) ==
  IF discussionMode = AiDriven THEN MAX_AI_DRIVEN_DISCUSSION_TURNS_PER_MODEL
  ELSE manualFixedTurns

\* variant: the loop ceiling is the user's turn count in either mode
maxTurnsForLoopOfUser(me) == me.maxTurns

\* const maxTurnsForLoop = AiDriven ? MAX_AI_DRIVEN_... : manualFixedTurns
maxTurnsForLoop(me) ==
  IF me.mode = AiDriven THEN MAX_AI_DRIVEN_DISCUSSION_TURNS_PER_MODEL
  ELSE me.maxTurns

\* for (turn < maxTurnsForLoop): cancellation check, then the call to Muse
DualLoopHead(S, r) ==
  LET me == S.runs[r]
  IN IF me.turn < maxTurnsForLoop(me)
     THEN IF S.cancelRequestRef THEN finallyBlock(S, r)
          ELSE callGateway(
                 addMessage(S, PreparingText(Muse), System, SystemNotification, r),
                 r, Muse, FALSE, AwaitMuse)
     ELSE DualAfterLoop(S, r)

\* try { ... await generateResponse(cognitoPrompt ...) }
DualTryStart(S, r) ==
  callGateway(
    addMessage(S, PreparingText(Cognito), System, SystemNotification, r),
    r, Cognito, FALSE, AwaitCognito)

\* variant: the consensus bookkeeping runs in either mode
DualConsensusAnyMode(S, r, persona, parsed) ==
  LET me == S.runs[r]
  IN IF parsed.discussionShouldEnd
     THEN IF me.prevStop
          THEN [S |-> addMessage(S, AgreedText, System, SystemNotification, r),
                brk |-> TRUE]
          ELSE [S |-> addMessage([S EXCEPT !.runs[r].prevStop = TRUE],
                                 SuggestedText(persona), System,
                                 SystemNotification, r),
                brk |-> FALSE]
     ELSE [S |-> [S EXCEPT !.runs[r].prevStop = FALSE], brk |-> FALSE]

\* the consensus bookkeeping after a parsed loop turn of `persona`;
\* result.brk tells whether the loop was left by break
DualConsensus(S, r, persona, parsed) ==
  LET me == S.runs[r]
  IN IF me.mode # AiDriven THEN [S |-> S, brk |-> FALSE]
     ELSE IF parsed.discussionShouldEnd
          THEN IF me.prevStop
               THEN [S |-> addMessage(S, AgreedText, System, SystemNotification, r),
                     brk |-> TRUE]
               ELSE [S |-> addMessage([S EXCEPT !.runs[r].prevStop = TRUE],
                                      SuggestedText(persona), System,
                                      SystemNotification, r),
                     brk |-> FALSE]
          ELSE [S |-> [S EXCEPT !.runs[r].prevStop = FALSE], brk |-> FALSE]

\* variant: the notepad is written and its writer is left as it was
DualCommitKeepsWriter(S, r, parsed, persona, purpose) ==
  LET S0 == applyNotepad(S, parsed, persona, r)
      S1 == addMessage([S0 EXCEPT !.lastNotepadUpdateBy = S.lastNotepadUpdateBy],
                       parsed.spokenText, persona, purpose, r)
  IN IF purpose = FinalResponse THEN S1
     ELSE [S1 EXCEPT !.runs[r].log = Append(@, [by |-> persona, text |-> parsed.spokenText])]

\* parse, write the notepad, append the spoken text
DualCommit(S, r, parsed, persona, purpose) ==
  LET S1 == addMessage(applyNotepad(S, parsed, persona, r),
                       parsed.spokenText, persona, purpose, r)
  IN IF purpose = FinalResponse THEN S1
     ELSE [S1 EXCEPT !.runs[r].log = Append(@, [by |-> persona, text |-> parsed.spokenText])]

\* the continuation after Cognito's opening call
DualAfterCognitoInitial(S, r, res, parsed) ==
  IF res.kind = "throw" THEN DualOnThrow(S, r, res)
  ELSE IF S.cancelRequestRef THEN finallyBlock(S, r)
  ELSE IF res.kind = "error" THEN DualOnError(S, r, res)
  ELSE
    LET S1 == noteSignal(DualCommit(S, r, parsed, Cognito, CognitoToMuse), r, Cognito, parsed)
        stop == IF S.runs[r].mode = AiDriven THEN parsed.discussionShouldEnd ELSE FALSE
        S2 == [S1 EXCEPT !.runs[r].prevStop = stop]
        S3 == IF stop
              THEN addMessage(S2, SuggestedText(Cognito), System, SystemNotification, r)
              ELSE S2
    IN DualLoopHead(S3, r)

\* the continuation after Muse's call
DualAfterMuse(S, r, res, parsed) ==
  IF res.kind = "throw" THEN DualOnThrow(S, r, res)
  ELSE IF S.cancelRequestRef THEN finallyBlock(S, r)
  ELSE IF res.kind = "error" THEN DualOnError(S, r, res)
  ELSE
    LET S1 == noteSignal(DualCommit(S, r, parsed, Muse, MuseToCognito), r, Muse, parsed)
        c == DualConsensus(S1, r, Muse, parsed)
        me == S.runs[r]
    IN IF c.brk THEN DualAfterLoop(c.S, r)
       ELSE IF me.mode = FixedTurns /\ me.turn = me.maxTurns - 1
            THEN DualAfterLoop(c.S, r)
       ELSE IF c.S.cancelRequestRef THEN finallyBlock(c.S, r)
       ELSE callGateway(
              addMessage(c.S, PreparingText(Cognito), System, SystemNotification, r),
              r, Cognito, FALSE, AwaitCognitoReply)

\* the continuation after Cognito's reply call
DualAfterCognitoReply(S, r, res, parsed) ==
  IF res.kind = "throw" THEN DualOnThrow(S, r, res)
  ELSE IF S.cancelRequestRef THEN finallyBlock(S, r)
  ELSE IF res.kind = "error" THEN DualOnError(S, r, res)
  ELSE
    LET S1 == noteSignal(DualCommit(S, r, parsed, Cognito, CognitoToMuse), r, Cognito, parsed)
        c == DualConsensus(S1, r, Cognito, parsed)
        me == S.runs[r]
        S2 == IF me.turn = MAX_AI_DRIVEN_DISCUSSION_TURNS_PER_MODEL - 1
                 /\ me.mode = AiDriven
              THEN addMessage(c.S, MaxTurnsText, System, SystemNotification, r)
              ELSE c.S
    IN IF c.brk THEN DualAfterLoop(c.S, r)
       ELSE DualLoopHead([S2 EXCEPT !.runs[r].turn = @ + 1], r)

\* the continuation after the final synthesis call
DualAfterFinal(S, r, res, parsed) ==
  IF res.kind = "throw" THEN DualOnThrow(S, r, res)
  ELSE IF S.cancelRequestRef THEN finallyBlock(S, r)
  ELSE IF res.kind = "error" THEN DualOnError(S, r, res)
  ELSE finallyBlock(DualCommit(S, r, parsed, Cognito, FinalResponse), r)

(* ------------------- handleSendMessage of src/App.tsx ------------------ *)

\* catch (error) { addMessage(`Error: ...`) } finally { ... }
RootCatch(S, r, text) ==
  finallyBlock(addMessage(S, ErrorText(text), System, SystemNotification, r), r)

\* variant: the error ends the run without a transcript entry
RootOnErrorSilent(S, r, res) ==
  finallyBlock([noteKeyError(S, res) EXCEPT !.runs[r].failed = TRUE], r)

\* if (response.error) { if (includes("API key not valid")) setIsApiKeyMissing(true); throw }
RootOnError(S, r, res) ==
  RootCatch([noteKeyError(S, res) EXCEPT !.runs[r].failed = TRUE], r, res.text)

\* const maxTurns = FixedTurns ? manualFixedTurns : MAX_AI_DRIVEN_...
RootMaxTurns(me) ==
  IF me.mode = FixedTurns THEN me.maxTurns
  ELSE MAX_AI_DRIVEN_DISCUSSION_TURNS_PER_MODEL

\* while (currentTurn < maxTurns && !discussionComplete && !cancelRequestRef.current)
RootLoopHead(S, r) ==
  LET me == S.runs[r]
  IN IF me.turn < RootMaxTurns(me) /\ ~me.complete /\ ~S.cancelRequestRef
     THEN callGateway(S, r, Cognito, FALSE, AwaitCognito)
     ELSE finallyBlock(S, r)

\* parse, write the notepad, append; then the two discussionComplete tests
RootCommitTurn(S, r, parsed, persona, purpose) ==
  LET me == S.runs[r]
      S1 == noteSignal(
              addMessage(applyNotepad(S, parsed, persona, r),
                         parsed.spokenText, persona, purpose, r),
              r, persona, parsed)
      S2 == IF me.mode = AiDriven /\ parsed.discussionShouldEnd
            THEN addMessage([S1 EXCEPT !.runs[r].complete = TRUE],
                            AgreedText, System, SystemNotification, r)
            ELSE S1
  IN IF me.mode = FixedTurns /\ me.turn = RootMaxTurns(me) - 1
     THEN [S2 EXCEPT !.runs[r].complete = TRUE]
     ELSE S2

\* one discussion turn resolved: commit it, test cancellation, issue the next call
RootAfterTurn(S, r, res, parsed, persona, purpose, nextPersona, nextFinal, nextPc) ==
  IF res.kind = "error" THEN RootOnError(S, r, res)
  ELSE
    LET S1 == RootCommitTurn(S, r, parsed, persona, purpose)
    IN IF S1.cancelRequestRef THEN finallyBlock(S1, r)
       ELSE callGateway(S1, r, nextPersona, nextFinal, nextPc)

RootAfterCognito(S, r, res, parsed) ==
  RootAfterTurn(S, r, res, parsed, Cognito, CognitoToMuse, Muse, FALSE, AwaitMuse)

RootAfterMuse(S, r, res, parsed) ==
  RootAfterTurn(S, r, res, parsed, Muse, MuseToCognito, Cognito, FALSE, AwaitCognitoReply)

RootAfterCognitoReply(S, r, res, parsed) ==
  RootAfterTurn(S, r, res, parsed, Cognito, CognitoToMuse, Cognito, TRUE, AwaitFinal)

\* the final answer inside the loop body, then currentTurn++ and the loop test
RootAfterFinal(S, r, res, parsed) ==
  IF res.kind = "error" THEN RootOnError(S, r, res)
  ELSE
    LET me == S.runs[r]
        S1 == addMessage(applyNotepad(S, parsed, Cognito, r),
                         parsed.spokenText, Cognito, FinalResponse, r)
        S2 == IF me.mode = AiDriven /\ me.turn = RootMaxTurns(me) - 1
              THEN addMessage(S1, MaxTurnsText, System, SystemNotification, r)
              ELSE S1
    IN RootLoopHead([S2 EXCEPT !.runs[r].turn = @ + 1], r)

(* ------------------------------ operations ----------------------------- *)

\* what the user can type, and the values the turn-count field can hold
UserInputs == { <<" ">>, <<"q">> }
TurnInputs == {[isNaN |-> TRUE, value |-> 0]}
              \cup {[isNaN |-> FALSE, value |-> v] : v \in 0..6}

IsWelcome(m) == m.sender = System /\ m.text # <<>> /\ m.text[1] = "Welcome to Dual AI Chat!"

\* useEffect on [model name, isApiKeyMissing, discussionMode, manualFixedTurns]:
\* the welcome message, if there is one, gets the text of the current settings
refreshWelcome(msgs, missing, mode, turns) ==
  LET found == {i \in 1..Len(msgs) : IsWelcome(msgs[i])}
  IN IF found # {} /\ ~missing
     THEN [msgs EXCEPT ![MinOf(found)].text = getWelcomeMessageText(mode, turns)]
     ELSE msgs

\* initializeChat on mount, with the API key configured
Mounted ==
  /\ app \in Apps
  /\ messages = <<Msg(getWelcomeMessageText(FixedTurns, DEFAULT_MANUAL_FIXED_TURNS),
                      System, SystemNotification, NoRun)>>
  /\ isLoading = FALSE
  /\ isApiKeyMissing = FALSE
  /\ notepadContent = INITIAL_NOTEPAD_CONTENT
  /\ lastNotepadUpdateBy = NoSender
  /\ discussionMode = FixedTurns
  /\ manualFixedTurns = DEFAULT_MANUAL_FIXED_TURNS
  /\ currentQueryStartTimeRef = NoTime
  /\ cancelRequestRef = FALSE
  /\ runs = [r \in RunIds |-> IdleRun]

Init ==
  /\ Mounted
  /\ responseText = <<>>
  /\ parsedResponse = <<>>
  /\ gatewayCall = NoCall
  /\ gatewayResult = <<>>

\* the entry guard of handleSendMessage
SendRejected(userInput, imageFile) ==
  IF app = AppDual
  THEN \/ isApiKeyMissing \/ isLoading
       \/ (Trim(userInput) = <<>> /\ ~imageFile)
  ELSE isLoading \/ Trim(userInput) = <<>>

\* invocations that have not started or have returned
Returned == {r \in RunIds : runs[r].pc \in {"idle", "done"}}

\* handleSendMessage up to its first await; the invocation takes a free slot,
\* and the histories of the invocations that have returned are forgotten
handleSendMessage(userInput, imageFile) ==
  /\ Returned # {}
  /\ Len(messages) <= MaxTranscript
  /\ IF SendRejected(userInput, imageFile) THEN UNCHANGED vars
     ELSE
       LET r == MinOf(Returned)
           S0 == [Cur EXCEPT
                    !.cancelRequestRef = FALSE,
                    !.isLoading = TRUE,
                    !.currentQueryStartTimeRef = r,
                    !.messages = [i \in 1..Len(messages) |->
                                    IF messages[i].run \in Returned
                                    THEN [messages[i] EXCEPT !.run = NoRun]
                                    ELSE messages[i]],
                    !.runs = [q \in RunIds |->
                                IF q = r
                                THEN [IdleRun EXCEPT !.mode = discussionMode,
                                                     !.maxTurns = manualFixedTurns,
                                                     !.notepad = notepadContent,
                                                     !.input = userInput,
                                                     !.image = imageFile]
                                ELSE IF q \in Returned THEN IdleRun
                                ELSE runs[q]]]
           userMsg(S) == addMessage(S, userInput, User, UserInput, r)
       IN /\ UNCHANGED <<parserVars, gatewayVars, app, discussionMode, manualFixedTurns>>
          /\ IF app = AppDual
             THEN IF imageFile
                  THEN Becomes([userMsg(S0) EXCEPT !.runs[r].blob = TRUE,
                                                   !.runs[r].pc = AwaitFile])
                  ELSE Becomes(DualTryStart(userMsg(S0), r))
             ELSE IF imageFile
                  THEN Becomes([S0 EXCEPT !.runs[r].pc = AwaitFile])
                  ELSE Becomes(RootLoopHead(userMsg(S0), r))

\* variant: the run goes on whether or not the conversion succeeded
fileToBase64Ignored(r, ok) ==
  /\ runs[r].pc = AwaitFile
  /\ UNCHANGED <<parserVars, gatewayVars, app, discussionMode, manualFixedTurns>>
  /\ IF app = AppDual THEN Becomes(DualTryStart(Cur, r))
     ELSE Becomes(RootLoopHead(
            addMessage(Cur, runs[r].input, User, UserInput, r), r))

\* await fileToBase64(imageFile) settles
fileToBase64Settles(r, ok) ==
  /\ runs[r].pc = AwaitFile
  /\ UNCHANGED <<parserVars, gatewayVars, app, discussionMode, manualFixedTurns>>
  /\ IF app = AppDual
     THEN IF ok THEN Becomes(DualTryStart(Cur, r))
          ELSE Becomes([addMessage(Cur, ImageFailedText, System, SystemNotification, r)
                          EXCEPT !.isLoading = FALSE, !.runs[r].pc = "done"])
     ELSE IF ok
          THEN Becomes(RootLoopHead(
                 addMessage(Cur, runs[r].input, User, UserInput, r), r))
          ELSE Becomes(RootCatch(Cur, r, <<"Unknown error">>))

\* the pending Gateway call of invocation r settles with res, and the
\* invocation runs up to its next await or its return
CognitoResolves(r, res) ==
  /\ runs[r].pc = AwaitCognito
  /\ UNCHANGED <<parserVars, gatewayVars, app, discussionMode, manualFixedTurns>>
  /\ \E parsed \in {ParsedOf(res)} :
       IF app = AppDual THEN Becomes(DualAfterCognitoInitial(Cur, r, res, parsed))
       ELSE Becomes(RootAfterCognito(Cur, r, res, parsed))

MuseResolves(r, res) ==
  /\ runs[r].pc = AwaitMuse
  /\ UNCHANGED <<parserVars, gatewayVars, app, discussionMode, manualFixedTurns>>
  /\ \E parsed \in {ParsedOf(res)} :
       IF app = AppDual THEN Becomes(DualAfterMuse(Cur, r, res, parsed))
       ELSE Becomes(RootAfterMuse(Cur, r, res, parsed))

CognitoReplyResolves(r, res) ==
  /\ runs[r].pc = AwaitCognitoReply
  /\ UNCHANGED <<parserVars, gatewayVars, app, discussionMode, manualFixedTurns>>
  /\ \E parsed \in {ParsedOf(res)} :
       IF app = AppDual THEN Becomes(DualAfterCognitoReply(Cur, r, res, parsed))
       ELSE Becomes(RootAfterCognitoReply(Cur, r, res, parsed))

FinalResolves(r, res) ==
  /\ runs[r].pc = AwaitFinal
  /\ UNCHANGED <<parserVars, gatewayVars, app, discussionMode, manualFixedTurns>>
  /\ \E parsed \in {ParsedOf(res)} :
       IF app = AppDual THEN Becomes(DualAfterFinal(Cur, r, res, parsed))
       ELSE Becomes(RootAfterFinal(Cur, r, res, parsed))

\* variant: the reset keeps the record of who wrote the notepad last
handleClearChatKeepsWriter ==
  /\ cancelRequestRef' = (IF isLoading THEN TRUE ELSE cancelRequestRef)
  /\ isLoading' = FALSE
  /\ currentQueryStartTimeRef' = NoTime
  /\ messages' = << IF ~isApiKeyMissing
                    THEN Msg(getWelcomeMessageText(discussionMode, manualFixedTurns),
                             System, SystemNotification, NoRun)
                    ELSE Msg(KeyWarningText, System, SystemNotification, NoRun) >>
  /\ notepadContent' = INITIAL_NOTEPAD_CONTENT
  /\ runs' = [r \in RunIds |->
               IF runs[r].pc \in {"idle", "done"} THEN IdleRun
               ELSE IF isLoading
               THEN [runs[r] EXCEPT !.cancelled = TRUE,
                                    !.cancelHit = @ \/ runs[r].pc \in GatewayAwaits]
               ELSE runs[r]]
  /\ UNCHANGED <<parserVars, gatewayVars, app, isApiKeyMissing, discussionMode, manualFixedTurns,
                 lastNotepadUpdateBy>>

handleClearChat ==
  /\ cancelRequestRef' = (IF isLoading THEN TRUE ELSE cancelRequestRef)
  /\ isLoading' = FALSE
  /\ currentQueryStartTimeRef' = NoTime
  /\ messages' = << IF ~isApiKeyMissing
                    THEN Msg(getWelcomeMessageText(discussionMode, manualFixedTurns),
                             System, SystemNotification, NoRun)
                    ELSE Msg(KeyWarningText, System, SystemNotification, NoRun) >>
  /\ notepadContent' = INITIAL_NOTEPAD_CONTENT
  /\ lastNotepadUpdateBy' = NoSender
  /\ runs' = [r \in RunIds |->
               IF runs[r].pc \in {"idle", "done"} THEN IdleRun
               ELSE IF isLoading
               THEN [runs[r] EXCEPT !.cancelled = TRUE,
                                    !.cancelHit = @ \/ runs[r].pc \in GatewayAwaits]
               ELSE runs[r]]
  /\ UNCHANGED <<parserVars, gatewayVars, app, isApiKeyMissing, discussionMode, manualFixedTurns>>

\* the mode selector
setDiscussionMode(mode) ==
  /\ mode # discussionMode
  /\ discussionMode' = mode
  /\ messages' = refreshWelcome(messages, isApiKeyMissing, mode, manualFixedTurns)
  /\ UNCHANGED <<parserVars, gatewayVars, app, isLoading, isApiKeyMissing, notepadContent,
                 lastNotepadUpdateBy,
                 manualFixedTurns, currentQueryStartTimeRef, cancelRequestRef,
                 runs>>

\* variant: the value is kept from rising above the maximum only
ClampTurnsCapOnly(e) ==
  LET value == IF e.isNaN THEN DEFAULT_MANUAL_FIXED_TURNS ELSE e.value
  IN IF value < MAX_MANUAL_FIXED_TURNS THEN value ELSE MAX_MANUAL_FIXED_TURNS

\* parseInt, the NaN default, the clamp
ClampTurns(e) ==
  LET value == IF e.isNaN THEN DEFAULT_MANUAL_FIXED_TURNS ELSE e.value
      capped == IF value < MAX_MANUAL_FIXED_TURNS THEN value ELSE MAX_MANUAL_FIXED_TURNS
  IN IF capped > MIN_MANUAL_FIXED_TURNS THEN capped ELSE MIN_MANUAL_FIXED_TURNS

handleManualFixedTurnsChange(e) ==
  /\ ClampTurns(e) # manualFixedTurns
  /\ manualFixedTurns' = ClampTurns(e)
  /\ messages' = refreshWelcome(messages, isApiKeyMissing, discussionMode, ClampTurns(e))
  /\ UNCHANGED <<parserVars, gatewayVars, app, isLoading, isApiKeyMissing, notepadContent,
                 lastNotepadUpdateBy,
                 discussionMode, currentQueryStartTimeRef, cancelRequestRef,
                 runs>>

\* no invocation is suspended
Quiescent == Returned = RunIds

\* the results of the discussion proper: every kind of text but the empty
\* notepad block, and both kinds of error
CoreResults ==
  {res \in GatewayResults :
     \/ res.kind = "ok" /\ res.text \notin BlankBlockResponses
     \/ res.kind = "error"}

\* the results used when invocations overlap
FewResults ==
  {res \in GatewayResults :
     \/ res.kind = "ok" /\ res.text \in { <<"x">>, <<"x", "d", "c">> }
     \/ res.kind = "error" /\ res.error = "network"}

Settles(results) ==
  \/ \E r \in RunIds, res \in results : CognitoResolves(r, res)
  \/ \E r \in RunIds, res \in results : MuseResolves(r, res)
  \/ \E r \in RunIds, res \in results : CognitoReplyResolves(r, res)
  \/ \E r \in RunIds, res \in results : FinalResolves(r, res)

\* no invocation has run since the conversation was last reset
Fresh == \A r \in RunIds : runs[r].pc = "idle"

\* One conversation at a time: the user submits a query only when no earlier
\* invocation is still suspended, and changes the settings between conversations.
Next ==
  \/ /\ Quiescent
     /\ \E userInput \in UserInputs, imageFile \in BOOLEAN :
          handleSendMessage(userInput, imageFile)
  \/ \E r \in RunIds, ok \in BOOLEAN : fileToBase64Settles(r, ok)
  \/ Settles(CoreResults)
  \/ handleClearChat
  \/ /\ Fresh
     /\ \E mode \in DiscussionMode : setDiscussionMode(mode)
  \/ /\ Fresh
     /\ \E e \in TurnInputs : handleManualFixedTurnsChange(e)

Spec == Init /\ [][Next]_vars

\* The user submits at any time, also while a cancelled invocation is still
\* suspended; the transcript is followed up to MaxOverlapTranscript entries.
NextOverlap ==
  \/ \E userInput \in UserInputs : handleSendMessage(userInput, FALSE)
  \/ /\ Len(messages) < MaxOverlapTranscript
     /\ Settles(FewResults)
  \/ handleClearChat
  \/ /\ Fresh
     /\ \E mode \in DiscussionMode : setDiscussionMode(mode)

SpecOverlap == Init /\ [][NextOverlap]_vars

\* The user changes the mode and the turn count at any time, also while an
\* invocation is suspended.
NextConfig ==
  \/ /\ Quiescent
     /\ \E userInput \in UserInputs : handleSendMessage(userInput, FALSE)
  \/ Settles(FewResults)
  \/ \E mode \in DiscussionMode : setDiscussionMode(mode)
  \/ \E e \in TurnInputs : handleManualFixedTurnsChange(e)

SpecConfig == Init /\ [][NextConfig]_vars

\* The parser on its own: the characters of the markers and of the stop tag,
\* a blank and a letter make up the texts it is given.
Alphabet ==
  {" ", "x"} \cup {NOTEPAD_UPDATE_TAG_START[i] : i \in 1..Len(NOTEPAD_UPDATE_TAG_START)}
             \cup {NOTEPAD_UPDATE_TAG_END[i] : i \in 1..Len(NOTEPAD_UPDATE_TAG_END)}
             \cup {DISCUSSION_COMPLETE_TAG[i] : i \in 1..Len(DISCUSSION_COMPLETE_TAG)}

RawTexts == UNION {[1..n -> Alphabet] : n \in 0..MaxResponseLen}

InitParse ==
  /\ Mounted
  /\ responseText \in RawTexts
  /\ parsedResponse = <<>>
  /\ gatewayCall = NoCall
  /\ gatewayResult = <<>>

\* parseAIResponse(responseText)
Parse ==
  /\ parsedResponse = <<>>
  /\ parsedResponse' = <<parseAIResponse(responseText)>>
  /\ UNCHANGED <<appVars, gatewayVars, responseText>>

\* parseAIResponse applied to the spoken text it returned
Reparse ==
  /\ Len(parsedResponse) = 1
  /\ parsedResponse' = Append(parsedResponse, parseAIResponse(parsedResponse[1].spokenText))
  /\ UNCHANGED <<appVars, gatewayVars, responseText>>

NextParse == Parse \/ Reparse

SpecParse == InitParse /\ [][NextParse]_vars

\* the results that matter to the notepad: every kind of text, and a failure
BlockResults ==
  {res \in GatewayResults :
     res.kind = "ok" \/ (res.kind = "error" /\ res.error = "network")}

\* One conversation at a time under the settings of the start, with responses
\* that hold a notepad block, an empty one, or none.
NextNotepad ==
  \/ /\ Quiescent
     /\ \E userInput \in UserInputs : handleSendMessage(userInput, FALSE)
  \/ Settles(BlockResults)
  \/ handleClearChat

SpecNotepad == Init /\ [][NextNotepad]_vars

\* A backend on its own: one call under each circumstance.
InitGateway ==
  /\ Mounted
  /\ responseText = <<>>
  /\ parsedResponse = <<>>
  /\ gatewayCall \in GatewayCalls
  /\ gatewayResult = <<>>

\* await generateResponse(...) settles
Generate ==
  /\ gatewayCall # NoCall
  /\ gatewayResult = <<>>
  /\ gatewayResult' = <<generateResponse(gatewayCall)>>
  /\ UNCHANGED <<appVars, parserVars, gatewayCall>>

NextGateway == Generate

SpecGateway == InitGateway /\ [][NextGateway]_vars

TypeOK ==
  /\ app \in Apps
  /\ isLoading \in BOOLEAN
  /\ manualFixedTurns \in 1..5

(* ============================== properties ============================= *)

Started(r) == runs[r].pc # "idle"

\* neither cancelled nor failed
Clean(r) == ~runs[r].cancelled /\ ~runs[r].failed /\ ~runs[r].threw

FinalCallIssued(r) ==
  runs[r].calls # <<>> /\ runs[r].calls[Len(runs[r].calls)].final

\* the invocation went through to the end: it returned after a final
\* synthesis call, with no cancellation and no error
Completed(r) == runs[r].pc = "done" /\ Clean(r) /\ FinalCallIssued(r)

MuseCalls(r) == Cardinality({i \in 1..Len(runs[r].calls) : runs[r].calls[i].to = Muse})

\* the two most recent parsed turns were consecutive calls, from the two
\* personas, and both carried the stop signal
TwoConsecutiveStops(r) ==
  LET sg == runs[r].sigs
      n == Len(sg)
  IN /\ n >= 2
     /\ sg[n].stop /\ sg[n - 1].stop
     /\ sg[n].by # sg[n - 1].by
     /\ sg[n].call = sg[n - 1].call + 1

\* C1: in AiDriven mode a discussion that ends before the ceiling of exchange
\* pairs is used up has ended by agreement: its two most recent turns, one from
\* each persona, both carried the stop signal; one signal alone never ends it.
C1_EndsOnlyByTwoSignals ==
  \A r \in RunIds :
    (/\ Completed(r)
     /\ runs[r].mode = AiDriven
     /\ MuseCalls(r) < MAX_AI_DRIVEN_DISCUSSION_TURNS_PER_MODEL)
    => TwoConsecutiveStops(r)

\* C2: a FixedTurns run with budget N that is neither cancelled nor failed has
\* issued exactly 2N + 1 Gateway calls when it returns.
C2_FixedTurnsCallCount ==
  \A r \in RunIds :
    (Completed(r) /\ runs[r].mode = FixedTurns)
    => Len(runs[r].calls) = 2 * runs[r].maxTurns + 1

\* invocations suspended at an await, and those awaiting a Gateway call
Suspended == {r \in RunIds : runs[r].pc \notin {"idle", "done"}}
InFlight == {r \in RunIds : runs[r].pc \in GatewayAwaits}

\* C3: once the cancellation flag was set while a Gateway call of a run was
\* pending, the run appends nothing to the transcript and writes nothing to the
\* notepad any more.
C3_NoCommitAfterCancel ==
  \A r \in RunIds : ~runs[r].late

\* C4: at most one run is active and at most one Gateway call is in flight.
C4_OneRunOneCall ==
  Cardinality(Suspended) <= 1 /\ Cardinality(InFlight) <= 1

\* C5: an AgreementDriven run asks Muse at most
\* MAX_AI_DRIVEN_DISCUSSION_TURNS_PER_MODEL times, whatever manualFixedTurns
\* is, and every such run returns, given that every pending call settles.
C5_AgreementDrivenTerminates ==
  /\ [](\A r \in RunIds :
          runs[r].mode = AiDriven
          => MuseCalls(r) <= MAX_AI_DRIVEN_DISCUSSION_TURNS_PER_MODEL)
  /\ \A r \in RunIds :
       (runs[r].pc \in GatewayAwaits /\ runs[r].mode = AiDriven)
         ~> (runs[r].pc = "done")

\* an AgreementDriven run went through its three exchanges without a stop
\* signal although the user's turn count is larger
C5_Witness ==
  \E r \in RunIds :
    /\ Completed(r) /\ runs[r].mode = AiDriven
    /\ runs[r].maxTurns > MAX_AI_DRIVEN_DISCUSSION_TURNS_PER_MODEL
    /\ MuseCalls(r) = MAX_AI_DRIVEN_DISCUSSION_TURNS_PER_MODEL
    /\ ~runs[r].sawStop

Call(persona, isFinal) == [to |-> persona, final |-> isFinal]

RECURSIVE Repeat(_, _)
Repeat(seq, n) == IF n <= 0 THEN <<>> ELSE seq \o Repeat(seq, n - 1)

\* the Gateway calls of a FixedTurns run with budget n none of whose turns
\* carries a stop signal
FixedPlan(n) ==
  IF app = AppDual
  THEN <<Call(Cognito, FALSE)>>
       \o Repeat(<<Call(Muse, FALSE), Call(Cognito, FALSE)>>, n - 1)
       \o <<Call(Muse, FALSE), Call(Cognito, TRUE)>>
  ELSE Repeat(<<Call(Cognito, FALSE), Call(Muse, FALSE),
                Call(Cognito, FALSE), Call(Cognito, TRUE)>>, n)

IsPrefix(p, q) == Len(p) <= Len(q) /\ SubSeq(q, 1, Len(p)) = p

\* C6: in FixedTurns mode the Gateway calls of a run are those of a run without
\* any stop signal, whichever turns carry one.
C6_FixedTurnsIgnoresStop ==
  \A r \in RunIds :
    (Started(r) /\ runs[r].mode = FixedTurns)
    => /\ IsPrefix(runs[r].calls, FixedPlan(runs[r].maxTurns))
       /\ Completed(r) => runs[r].calls = FixedPlan(runs[r].maxTurns)

\* a FixedTurns run went through to the end although a turn carried the stop signal
C6_Witness ==
  \E r \in RunIds :
    Completed(r) /\ runs[r].mode = FixedTurns /\ runs[r].sawStop /\ runs[r].maxTurns >= 2

\* C7: in AgreementDriven mode, when a Cognito turn carries the stop signal and
\* Muse's immediately following turn carries it too, the next Gateway call of the
\* run, if there is one, is the final synthesis.
C7_StopStopThenFinal ==
  \A r \in RunIds :
    runs[r].mode = AiDriven =>
      \A i \in 1..(Len(runs[r].sigs) - 1) :
        LET a == runs[r].sigs[i]
            b == runs[r].sigs[i + 1]
        IN (/\ a.by = Cognito /\ a.stop
            /\ b.by = Muse /\ b.stop
            /\ b.call = a.call + 1
            /\ Len(runs[r].calls) > b.call)
           => runs[r].calls[b.call + 1].final

\* C8: in AgreementDriven mode, when Cognito's opening carries the stop signal
\* and Muse's reply does not, the discussion goes on into the second exchange:
\* the next call is not the final synthesis, a run that goes through to the end
\* has parsed at least four turns, and if the third and fourth both carry the
\* signal the call after them is the final synthesis.
C8_StopCancelledByPlainTurn ==
  \A r \in RunIds :
    LET sg == runs[r].sigs
        cl == runs[r].calls
    IN (/\ runs[r].mode = AiDriven
        /\ Len(sg) >= 2
        /\ sg[1].stop /\ ~sg[2].stop)
       => /\ Len(cl) >= 3 => ~cl[3].final
          /\ Completed(r) => Len(sg) >= 4
          /\ (Len(sg) >= 4 /\ sg[3].stop /\ sg[4].stop /\ Len(cl) >= 5)
               => (sg[4].call = 4 /\ cl[5].final)

\* the entries of the transcript that run r appended as User or as an AI
OwnEntries(r) ==
  SelectSeq(messages, LAMBDA m : m.run = r /\ m.sender # System)

\* C9: the User and AI entries of a run that went through to the end are the
\* user's entry, Cognito's opening, then entries alternating Muse and Cognito,
\* then exactly one final-response entry by Cognito, which is the last; with
\* FixedTurns and N = 1 that makes three AI entries.
C9_TranscriptOrder ==
  \A r \in RunIds :
    Completed(r) =>
      LET e == OwnEntries(r)
          n == Len(e)
      IN /\ n >= 4
         /\ e[1].sender = User /\ e[1].purpose = UserInput
         /\ e[2].sender = Cognito /\ e[2].purpose = CognitoToMuse
         /\ \A i \in 3..(n - 1) :
              IF i % 2 = 1
              THEN e[i].sender = Muse /\ e[i].purpose = MuseToCognito
              ELSE e[i].sender = Cognito /\ e[i].purpose = CognitoToMuse
         /\ e[n].sender = Cognito /\ e[n].purpose = FinalResponse
         /\ \A i \in 1..(n - 1) : e[i].purpose # FinalResponse
         /\ (runs[r].mode = FixedTurns /\ runs[r].maxTurns = 1) => n = 4

\* the text of an entry that reports the error text of a Gateway result
CarriesError(text) ==
  \E res \in ErrorResults : text \in {ErrorText(res.text), KeyErrorText(res.text)}

\* C10: the step in which a Gateway call of a run returns with error populated
\* ends the run: it issues no call, leaves the notepad as it is, and appends
\* exactly one entry, a System entry that carries the error text.
C10_ErrorAbortsRun ==
  [][\A r \in RunIds :
       (~runs[r].failed /\ runs'[r].failed)
       => /\ runs'[r].pc = "done"
          /\ runs'[r].calls = runs[r].calls
          /\ notepadContent' = notepadContent
          /\ lastNotepadUpdateBy' = lastNotepadUpdateBy
          /\ Len(messages') = Len(messages) + 1
          /\ SubSeq(messages', 1, Len(messages)) = messages
          /\ LET m == messages'[Len(messages')]
             IN /\ m.sender = System /\ m.purpose = SystemNotification
                /\ m.run = r
                /\ CarriesError(m.text)]_vars

\* a run failed after two turns had been committed, one of them with a notepad write
C10_Witness ==
  \E r \in RunIds :
    /\ runs[r].failed /\ runs[r].pc = "done"
    /\ Len(runs[r].calls) >= 3
    /\ lastNotepadUpdateBy # NoSender
    /\ messages[Len(messages)].run = r
    /\ CarriesError(messages[Len(messages)].text)

\* the entries a step appended to the transcript
Appended == {i \in 1..Len(messages') : i > Len(messages)}

IsErrorEntry(m) == m.sender = System /\ CarriesError(m.text)

\* C11: a Gateway call that settles, with a result or with an error, while
\* the cancel flag is set appends no System error entry to the transcript.
C11_CancelNeverReportsError ==
  [][\A r \in RunIds :
       (cancelRequestRef /\ runs[r].pc \in GatewayAwaits /\ runs'[r].pc # runs[r].pc)
       => \A i \in Appended : ~IsErrorEntry(messages'[i])]_vars

\* C12: the step in which an invocation that passed the entry guard returns
\* releases the busy flag, clears the start timestamp and revokes the object
\* URL of the attachment, whatever made it return.
C12_ReturnRunsCleanup ==
  [][\A r \in RunIds :
       (runs[r].pc \notin {"idle", "done"} /\ runs'[r].pc = "done")
       => /\ isLoading' = FALSE
          /\ currentQueryStartTimeRef' = NoTime
          /\ ~runs'[r].blob]_vars

NetworkErrorText == ErrorText(<<"Error communicating with AI">>)

\* C13: the step in which a Gateway call fails with an error that is not a
\* credential error ends that run only: the run returns, the busy flag is
\* released, isApiKeyMissing keeps its value, and where the credentials are
\* present the entry guard lets the next non-empty send through.
C13_PlainErrorEndsRunOnly ==
  [][\A r \in RunIds :
       (/\ ~runs[r].failed /\ runs'[r].failed
        /\ messages'[Len(messages')].text = NetworkErrorText)
       => /\ runs'[r].pc = "done"
          /\ isLoading' = FALSE
          /\ isApiKeyMissing' = isApiKeyMissing
          /\ (~isApiKeyMissing' => ~SendRejected(<<"q">>, FALSE)')]_vars

\* a run failed on a plain error, and the next send started a run that has
\* committed its opening turn
C13_Witness ==
  /\ ~isApiKeyMissing
  /\ \E i, j, k \in 1..Len(messages) :
       /\ i < j /\ j < k
       /\ messages[i].sender = System /\ messages[i].text = NetworkErrorText
       /\ messages[j].sender = User
       /\ messages[k].sender = Cognito
       /\ \E r \in RunIds : messages[k].run = r /\ runs[r].pc \in GatewayAwaits

\* C14: isApiKeyMissing, once true, stays true, and while it is true no send
\* starts a run.
C14_KeyMissingBlocksSends ==
  [][isApiKeyMissing
       => /\ isApiKeyMissing'
          /\ \A r \in RunIds :
               runs[r].pc \in {"idle", "done"} => runs'[r].pc \in {"idle", "done"}]_vars

\* C15: the step in which the conversion of the attachment fails ends the run
\* with no Gateway call issued for it, and reports the failure as exactly one
\* System entry of the transcript.
C15_ConversionFailureNoCall ==
  [][\A r \in RunIds :
       fileToBase64Settles(r, FALSE)
       => /\ runs'[r].calls = <<>>
          /\ runs'[r].pc = "done"
          /\ Len(messages') = Len(messages) + 1
          /\ SubSeq(messages', 1, Len(messages)) = messages
          /\ LET m == messages'[Len(messages')]
             IN m.sender = System /\ m.purpose = SystemNotification /\ m.run = r]_vars

\* a run with an attachment has returned on the failure notice, with no call
C15_Witness ==
  \E r \in RunIds :
    /\ runs[r].image /\ runs[r].pc = "done" /\ runs[r].calls = <<>>
    /\ messages[Len(messages)].run = r
    /\ messages[Len(messages)].sender = System
    /\ messages[Len(messages)].text \in {ImageFailedText, ErrorText(<<"Unknown error">>)}

\* C16 as stated: handleClearChat leaves the transcript empty, the notepad at
\* its initial content and no last writer.
C16_ClearLeavesTranscriptEmpty ==
  [][handleClearChat
       => /\ messages' = <<>>
          /\ notepadContent' = INITIAL_NOTEPAD_CONTENT
          /\ lastNotepadUpdateBy' = NoSender]_vars

\* C16: handleClearChat, in any state, leaves in the transcript nothing but
\* the one System notice it posts (the welcome message, or the key warning),
\* the notepad at its initial content and no last writer.
C16_ClearLeavesOnlyNotice ==
  [][handleClearChat
       => /\ Len(messages') = 1
          /\ messages'[1].sender = System
          /\ messages'[1].purpose = SystemNotification
          /\ messages'[1].run = NoRun
          /\ notepadContent' = INITIAL_NOTEPAD_CONTENT
          /\ lastNotepadUpdateBy' = NoSender]_vars

\* the conversation was cleared while the final synthesis call was pending
C16_Witness ==
  \E r \in RunIds :
    /\ runs[r].cancelled /\ runs[r].pc = AwaitFinal
    /\ Len(messages) = 1 /\ messages[1].run = NoRun
    /\ notepadContent = INITIAL_NOTEPAD_CONTENT
    /\ lastNotepadUpdateBy = NoSender

\* C17: a send made while an invocation is still suspended, or with text of
\* white space only and no attachment, changes nothing.
C17_RejectedSendChangesNothing ==
  [][\A userInput \in UserInputs :
       (/\ Suspended # {} \/ Trim(userInput) = <<>>
        /\ handleSendMessage(userInput, FALSE))
       => UNCHANGED vars]_vars

\* C18: with no run active and the credentials present, the entry guard lets
\* a send through that has an attachment and no text.
C18_ImageOnlySendAccepted ==
  (Quiescent /\ ~isLoading /\ ~isApiKeyMissing) => ~SendRejected(<<" ">>, TRUE)

\* C19: an invocation works with the mode and the turn count of the moment
\* it was started: the send captures the current settings, no later step
\* changes what a started invocation captured, and its Gateway calls follow
\* the captured settings whatever the settings have become since.
C19_RunKeepsItsSettings ==
  /\ [][\A r \in RunIds :
          /\ (runs[r].pc \in {"idle", "done"} /\ runs'[r].pc \notin {"idle", "done"})
             => (runs'[r].mode = discussionMode /\ runs'[r].maxTurns = manualFixedTurns)
          /\ runs[r].pc \notin {"idle", "done"}
             => (runs'[r].mode = runs[r].mode /\ runs'[r].maxTurns = runs[r].maxTurns)]_vars
  /\ [](\A r \in RunIds :
          Started(r)
          => /\ runs[r].mode = FixedTurns
                => /\ IsPrefix(runs[r].calls, FixedPlan(runs[r].maxTurns))
                   /\ Completed(r) => runs[r].calls = FixedPlan(runs[r].maxTurns)
             /\ runs[r].mode = AiDriven
                => /\ MuseCalls(r) <= MAX_AI_DRIVEN_DISCUSSION_TURNS_PER_MODEL
                   /\ (Completed(r) /\ ~runs[r].sawStop)
                      => MuseCalls(r) = MAX_AI_DRIVEN_DISCUSSION_TURNS_PER_MODEL)

\* a FixedTurns run has reached its final synthesis by its own plan while the
\* settings have become AgreementDriven with a larger turn count
C19_Witness ==
  \E r \in RunIds :
    /\ runs[r].pc = AwaitFinal /\ Clean(r)
    /\ runs[r].mode = FixedTurns
    /\ runs[r].calls = FixedPlan(runs[r].maxTurns)
    /\ discussionMode = AiDriven
    /\ manualFixedTurns > runs[r].maxTurns

\* the trimmed text the parser was given
TrimmedRaw == Trim(responseText)

\* 1-based positions of the start marker in the trimmed text
StartMarkers ==
  {i \in 1..Len(TrimmedRaw) :
     /\ i + Len(NOTEPAD_UPDATE_TAG_START) - 1 <= Len(TrimmedRaw)
     /\ SubSeq(TrimmedRaw, i, i + Len(NOTEPAD_UPDATE_TAG_START) - 1)
          = NOTEPAD_UPDATE_TAG_START}

\* the trimmed text ends with the end marker, and a start marker precedes it
TrailingBlock ==
  /\ EndsWith(TrimmedRaw, NOTEPAD_UPDATE_TAG_END)
  /\ \E i \in StartMarkers : i < Len(TrimmedRaw) - Len(NOTEPAD_UPDATE_TAG_END) + 1

\* the text between the last start marker and the final end marker, and the
\* text before that start marker, both trimmed
BlockInner ==
  Trim(SubSeq(TrimmedRaw, MaxOf(StartMarkers) + Len(NOTEPAD_UPDATE_TAG_START),
              Len(TrimmedRaw) - Len(NOTEPAD_UPDATE_TAG_END)))
BlockResidue == Trim(SubSeq(TrimmedRaw, 1, MaxOf(StartMarkers) - 1))

\* C20 as stated: for a text with a trailing block the parser returns the
\* inner text, trimmed, as the replacement, and everything before the block,
\* trimmed, as the spoken text.
C20_BlockAndResidueReturned ==
  (parsedResponse # <<>> /\ TrailingBlock)
  => /\ parsedResponse[1].newNotepadContent = BlockInner
     /\ parsedResponse[1].spokenText = BlockResidue

\* C20: for a text with a trailing block the parser returns as the
\* replacement the text between the last start marker and the final end
\* marker, trimmed, and as the spoken text everything before that start
\* marker, trimmed, whenever this residue is not empty and holds no stop tag.
C20_BlockParsed ==
  (parsedResponse # <<>> /\ TrailingBlock)
  => /\ parsedResponse[1].newNotepadContent = BlockInner
     /\ (BlockResidue # <<>> /\ ~Includes(BlockResidue, DISCUSSION_COMPLETE_TAG))
        => parsedResponse[1].spokenText = BlockResidue

\* a text with blanks around it, a spoken part and a block that is not empty
\* has been parsed
C20_Witness ==
  /\ parsedResponse # <<>> /\ TrailingBlock
  /\ Len(TrimmedRaw) < Len(responseText)
  /\ BlockInner # <<>>
  /\ BlockResidue # <<>> /\ ~Includes(BlockResidue, DISCUSSION_COMPLETE_TAG)

\* the trimmed text has the end marker as its last characters
EndMarkerLast ==
  /\ Len(TrimmedRaw) >= Len(NOTEPAD_UPDATE_TAG_END)
  /\ SubSeq(TrimmedRaw, Len(TrimmedRaw) - Len(NOTEPAD_UPDATE_TAG_END) + 1, Len(TrimmedRaw))
       = NOTEPAD_UPDATE_TAG_END

\* the stop tag occurs in text t
HasStopTag(t) ==
  \E i \in 1..Len(t) :
    /\ i + Len(DISCUSSION_COMPLETE_TAG) - 1 <= Len(t)
    /\ SubSeq(t, i, i + Len(DISCUSSION_COMPLETE_TAG) - 1) = DISCUSSION_COMPLETE_TAG

\* C21 as stated: for a text whose trimmed form does not end with the end
\* marker the parser returns no replacement and the whole trimmed text as the
\* spoken text, and parsing that spoken text returns it again.
C21_NoBlockWholeTextReturned ==
  (parsedResponse # <<>> /\ ~EndMarkerLast)
  => /\ parsedResponse[1].newNotepadContent = NullText
     /\ parsedResponse[1].spokenText = TrimmedRaw
     /\ Len(parsedResponse) = 2
        => parsedResponse[2].spokenText = parsedResponse[1].spokenText

\* C21: for a text whose trimmed form does not end with the end marker the
\* parser returns no replacement; when that trimmed text is not empty and holds
\* no stop tag it is returned whole as the spoken text, and parsing this spoken
\* text returns it again, with no replacement.
C21_NoBlockParsed ==
  (parsedResponse # <<>> /\ ~EndMarkerLast)
  => /\ parsedResponse[1].newNotepadContent = NullText
     /\ (TrimmedRaw # <<>> /\ ~HasStopTag(TrimmedRaw))
        => /\ parsedResponse[1].spokenText = TrimmedRaw
           /\ Len(parsedResponse) = 2
              => /\ parsedResponse[2].spokenText = TrimmedRaw
                 /\ parsedResponse[2].newNotepadContent = NullText

\* a text with blanks around it, in which an end marker stands before a start
\* marker, has been parsed twice
C21_Witness ==
  /\ Len(parsedResponse) = 2 /\ ~EndMarkerLast
  /\ Len(TrimmedRaw) < Len(responseText)
  /\ ~HasStopTag(TrimmedRaw)
  /\ \E i, j \in 1..Len(TrimmedRaw) :
       /\ i < j
       /\ SubSeq(TrimmedRaw, i, i + Len(NOTEPAD_UPDATE_TAG_END) - 1) = NOTEPAD_UPDATE_TAG_END
       /\ j \in StartMarkers

\* C22: parsing the spoken text the parser returned finds no stop tag in it.
C22_ReparseFindsNoStop ==
  Len(parsedResponse) = 2 => ~parsedResponse[2].discussionShouldEnd

\* C23: the spoken text the parser returns is never empty, whatever text it
\* was given, and so no entry of Cognito or Muse in the transcript is empty.
C23_SpokenTextNeverEmpty ==
  /\ \A i \in 1..Len(parsedResponse) : parsedResponse[i].spokenText # <<>>
  /\ \A i \in 1..Len(messages) :
       messages[i].sender \in {Cognito, Muse} => messages[i].text # <<>>

\* a text of blanks only has been parsed into the placeholder
C23_Witness ==
  /\ parsedResponse # <<>>
  /\ responseText # <<>> /\ TrimmedRaw = <<>>
  /\ parsedResponse[1].spokenText = NoTextPlaceholder

\* C24: a call to a backend never rejects: under each failure it resolves to
\* a result with error populated and a message as its text.
C24_BackendsNeverReject ==
  gatewayResult # <<>>
  => /\ gatewayResult[1].kind # "throw"
     /\ (gatewayCall.failure # NoFailure
         \/ (gatewayCall.backend = AiService /\ ~gatewayCall.configured))
        => /\ gatewayResult[1].kind = "error"
           /\ gatewayResult[1].error # ""
           /\ gatewayResult[1].text # <<>>

\* C26: every prompt of a run that was not cancelled embeds the notepad text
\* as it stands when the prompt is built, the writes of the earlier turns of
\* the run included.
C26_PromptsEmbedCurrentNotepad ==
  \A r \in RunIds : ~runs[r].cancelled => ~runs[r].staleDoc

\* C30: every prompt after the opening of a run that was not cancelled embeds
\* the user's query and the spoken text of every AI turn the run has
\* committed, in order.
C30_PromptsEmbedTranscript ==
  \A r \in RunIds : ~runs[r].cancelled => ~runs[r].shortLog

\* C25: an invocation that was suspended when the conversation was cleared
\* appends nothing to the transcript, writes nothing to the notepad and issues
\* no Gateway call from then on, also when a new query has been sent since.
C25_ClearedRunStaysSilent ==
  [][\A r \in RunIds :
       (runs[r].cancelled /\ r \in Suspended)
       => /\ runs'[r].calls = runs[r].calls
          /\ \A i \in Appended : messages'[i].run # r
          /\ runs'[r].pc # runs[r].pc
             => /\ notepadContent' = notepadContent
                /\ lastNotepadUpdateBy' = lastNotepadUpdateBy]_vars

\* the texts a parsed response can put into the notepad
Replacements ==
  {ParsedResponses[t].newNotepadContent : t \in Responses} \ {NullText}

\* the step is the settling of a call whose response holds no notepad block
NullReplacementSettles ==
  \E r \in RunIds, res \in BlockResults :
    /\ ParsedOf(res).newNotepadContent = NullText
    /\ \/ CognitoResolves(r, res) \/ MuseResolves(r, res)
       \/ CognitoReplyResolves(r, res) \/ FinalResolves(r, res)

\* C27: the notepad and its last writer change only when the conversation is
\* reset, to the initial content and no writer, or when a call settles with a
\* response that holds a notepad block, to the content of the block and the
\* persona that was called; a response without a block changes neither.
C27_NotepadWrittenByBlockOrReset ==
  [][/\ (notepadContent' # notepadContent \/ lastNotepadUpdateBy' # lastNotepadUpdateBy)
        => \/ /\ notepadContent' = INITIAL_NOTEPAD_CONTENT
              /\ lastNotepadUpdateBy' = NoSender
              /\ Len(messages') = 1
           \/ \E r \in RunIds :
                /\ runs[r].pc \in GatewayAwaits /\ runs'[r].pc # runs[r].pc
                /\ notepadContent' \in Replacements
                /\ lastNotepadUpdateBy' = runs[r].calls[Len(runs[r].calls)].to
     /\ NullReplacementSettles
        => /\ notepadContent' = notepadContent
           /\ lastNotepadUpdateBy' = lastNotepadUpdateBy]_vars

\* Muse has written the notepad and Cognito is asked to reply
C27_Witness ==
  \E r \in RunIds :
    /\ runs[r].pc = AwaitCognitoReply /\ Clean(r)
    /\ lastNotepadUpdateBy = Muse
    /\ notepadContent \in Replacements

\* C28: the cancellation flag becomes true only when the conversation is
\* cleared while the busy flag is set, becomes false only in the step that
\* starts an invocation, and so is false whenever an invocation issues its
\* first Gateway call.
C28_CancelFlagFrame ==
  [][/\ (~cancelRequestRef /\ cancelRequestRef')
        => (isLoading /\ Len(messages') = 1 /\ notepadContent' = INITIAL_NOTEPAD_CONTENT)
     /\ (cancelRequestRef /\ ~cancelRequestRef')
        => \E r \in RunIds :
             runs[r].pc \in {"idle", "done"} /\ runs'[r].pc \notin {"idle", "done"}
     /\ \A r \in RunIds :
          (runs[r].pc \in {"idle", "done", AwaitFile} /\ runs'[r].pc \in GatewayAwaits)
          => ~cancelRequestRef']_vars

\* C29: when an invocation returns while the invocation started last is
\* another one that is still suspended, the busy flag and the start time are
\* left as they are.
C29_CleanupSparesNewerRun ==
  [][\A r \in RunIds :
       (/\ r \in Suspended /\ runs'[r].pc = "done"
        /\ currentQueryStartTimeRef \notin {NoTime, r}
        /\ currentQueryStartTimeRef \in Suspended
        /\ isLoading)
       => (isLoading' /\ currentQueryStartTimeRef' = currentQueryStartTimeRef)]_vars

\* the call of invocation r settles with result res
SettlesWith(r, res) ==
  \/ CognitoResolves(r, res) \/ MuseResolves(r, res)
  \/ CognitoReplyResolves(r, res) \/ FinalResolves(r, res)

\* text t ends with the end marker, and between the last start marker and
\* that end marker there are blanks only
BlankBlock(t) ==
  \E i, j \in 1..Len(t) :
    /\ i < j
    /\ SubSeq(t, i, i + Len(NOTEPAD_UPDATE_TAG_START) - 1) = NOTEPAD_UPDATE_TAG_START
    /\ j + Len(NOTEPAD_UPDATE_TAG_END) - 1 = Len(t)
    /\ SubSeq(t, j, Len(t)) = NOTEPAD_UPDATE_TAG_END
    /\ \A k \in (i + Len(NOTEPAD_UPDATE_TAG_START))..(j - 1) : t[k] = " "

\* text t ends with the end marker and a start marker stands before it
ValidBlock(t) ==
  \E i, j \in 1..Len(t) :
    /\ i < j
    /\ SubSeq(t, i, i + Len(NOTEPAD_UPDATE_TAG_START) - 1) = NOTEPAD_UPDATE_TAG_START
    /\ j + Len(NOTEPAD_UPDATE_TAG_END) - 1 = Len(t)
    /\ SubSeq(t, j, Len(t)) = NOTEPAD_UPDATE_TAG_END

\* C31: for a response that ends with a notepad block holding blanks only the
\* parser returns the empty text, not null, and the invocation it settles sets
\* the notepad to the empty text and the last writer to the persona called; a
\* response with no valid block leaves the notepad and its writer as they are.
C31_BlankBlockWipesNotepad ==
  [][\A r \in RunIds, res \in BlockResults :
       (res.kind = "ok" /\ ~runs[r].cancelled /\ SettlesWith(r, res))
       => /\ BlankBlock(res.text)
             => /\ parseAIResponse(res.text).newNotepadContent = <<>>
                /\ notepadContent' = <<>>
                /\ lastNotepadUpdateBy' = runs[r].calls[Len(runs[r].calls)].to
          /\ ~ValidBlock(res.text)
             => /\ parseAIResponse(res.text).newNotepadContent = NullText
                /\ notepadContent' = notepadContent
                /\ lastNotepadUpdateBy' = lastNotepadUpdateBy]_vars

\* Muse has wiped the notepad after the opening turn of Cognito, and Cognito is asked to
\* reply
C31_Witness ==
  \E r \in RunIds :
    /\ runs[r].pc = AwaitCognitoReply /\ Clean(r)
    /\ notepadContent = <<>>
    /\ lastNotepadUpdateBy = Muse
    /\ \E i \in 1..Len(messages) : messages[i].run = r /\ messages[i].sender = Cognito

\* C32: between two resets the transcript only grows: a step that is not a
\* reset of the conversation leaves every entry in place, with its text, and
\* at most appends entries at the end, also when the mode or the number of
\* turns is changed.
C32_TranscriptAppendOnly ==
  [][\/ /\ Len(messages) <= Len(messages')
        /\ SubSeq(messages', 1, Len(messages)) = messages
     \/ handleClearChat]_vars

\* the characters of the notepad markers
MarkerChars ==
  {NOTEPAD_UPDATE_TAG_START[i] : i \in 1..Len(NOTEPAD_UPDATE_TAG_START)}
    \cup {NOTEPAD_UPDATE_TAG_END[i] : i \in 1..Len(NOTEPAD_UPDATE_TAG_END)}

\* text t holds no character of a notepad marker
NoMarkerIn(t) == \A k \in 1..Len(t) : t[k] \notin MarkerChars

\* the ways to read the text given to the parser as the instructions of the
\* prompt lay a response out: a spoken part, the start marker, a content, the
\* end marker, and the stop tag as the last characters of the message
ProtocolReadings ==
  {rd \in [spoken : {SubSeq(responseText, 1, i) : i \in 1..Len(responseText)},
           content : {SubSeq(responseText, i, j) : i \in 1..(Len(responseText) + 1),
                                                   j \in 0..Len(responseText)}] :
     /\ responseText = rd.spoken \o NOTEPAD_UPDATE_TAG_START \o rd.content
                         \o NOTEPAD_UPDATE_TAG_END \o DISCUSSION_COMPLETE_TAG
     /\ NoMarkerIn(rd.spoken) /\ ~HasStopTag(rd.spoken)
     /\ \E k \in 1..Len(rd.spoken) : rd.spoken[k] # " "
     /\ NoMarkerIn(rd.content)}

\* C33: a response laid out as the prompt instructs, the spoken text, then the
\* notepad block, then the stop tag at the very end, is parsed into that spoken
\* text, the content of the block as the replacement, and the stop signal.
C33_ProtocolResponseParsed ==
  parsedResponse # <<>>
  => \A rd \in ProtocolReadings :
       /\ parsedResponse[1].spokenText = Trim(rd.spoken)
       /\ parsedResponse[1].newNotepadContent = Trim(rd.content)
       /\ parsedResponse[1].discussionShouldEnd

\* the notices of an agreement that invocation r has appended to transcript m
AgreedNotices(m, r) ==
  {i \in 1..Len(m) : m[i].run = r /\ m[i].sender = System /\ m[i].text = AgreedText}

\* C34: the notice that both AIs have agreed to end the discussion is appended
\* only by an invocation in AiDriven mode whose two most recent turns, one of
\* each persona, both carried the stop signal.
C34_AgreedNoticeNeedsTwoSignals ==
  [][\A r \in RunIds :
       Cardinality(AgreedNotices(messages', r)) > Cardinality(AgreedNotices(messages, r))
       => /\ runs'[r].mode = AiDriven
          /\ TwoConsecutiveStops(r)']_vars

\* the text between the last start marker and the final end marker, as given
BlockInnerRaw ==
  SubSeq(TrimmedRaw, MaxOf(StartMarkers) + Len(NOTEPAD_UPDATE_TAG_START),
         Len(TrimmedRaw) - Len(NOTEPAD_UPDATE_TAG_END))

\* the text has a trailing block, and the stop tag occurs inside the block
\* and nowhere before it
StopTagInBlockOnly ==
  /\ TrailingBlock
  /\ HasStopTag(BlockInnerRaw)
  /\ ~HasStopTag(SubSeq(TrimmedRaw, 1, MaxOf(StartMarkers) - 1))

\* C35: a stop tag that occurs only inside the trailing notepad block does not
\* raise the stop signal, and it stays as it is in the replacement returned
\* for the notepad.
C35_StopTagInBlockIgnored ==
  (parsedResponse # <<>> /\ StopTagInBlockOnly)
  => /\ ~parsedResponse[1].discussionShouldEnd
     /\ parsedResponse[1].newNotepadContent = Trim(BlockInnerRaw)
     /\ HasStopTag(parsedResponse[1].newNotepadContent)

\* a text with a spoken part and a block that holds the stop tag has been
\* parsed
C35_Witness ==
  /\ parsedResponse # <<>> /\ StopTagInBlockOnly
  /\ Trim(SubSeq(TrimmedRaw, 1, MaxOf(StartMarkers) - 1)) # <<>>
  /\ parsedResponse[1].spokenText = Trim(SubSeq(TrimmedRaw, 1, MaxOf(StartMarkers) - 1))

\* C36: the last writer of the notepad is nobody, Cognito or Muse, and while
\* it is nobody the notepad holds the initial content.
C36_NoWriterMeansInitialNotepad ==
  /\ lastNotepadUpdateBy \in {NoSender, Cognito, Muse}
  /\ lastNotepadUpdateBy = NoSender => notepadContent = INITIAL_NOTEPAD_CONTENT

\* the conversation was reset while an invocation was awaiting a call that it
\* had issued after the notepad was written
C36_Witness ==
  /\ lastNotepadUpdateBy = NoSender
  /\ notepadContent = INITIAL_NOTEPAD_CONTENT
  /\ \E r \in RunIds :
       /\ runs[r].pc \in GatewayAwaits
       /\ runs[r].cancelled /\ runs[r].staleDoc

\* the entries of Cognito and Muse that invocation r has in transcript m
AITurns(m, r) ==
  {i \in 1..Len(m) : m[i].run = r /\ m[i].sender \in {Cognito, Muse}}

\* C37: when a Gateway call of an invocation that was not cancelled fails, by
\* a result with error populated or by a rejection, nothing is taken back: the
\* transcript keeps every entry it had, the query and one entry for each call
\* of the invocation that had settled before, a System entry is appended after
\* them, and the notepad and its writer stay as the earlier turns left them.
C37_AbortKeepsCommittedWork ==
  [][\A r \in RunIds :
       (/\ ~runs[r].cancelled /\ ~runs'[r].cancelled
        /\ ~runs[r].failed /\ ~runs[r].threw
        /\ runs'[r].failed \/ runs'[r].threw)
       => /\ Len(messages') = Len(messages) + 1
          /\ SubSeq(messages', 1, Len(messages)) = messages
          /\ messages'[Len(messages')].sender = System
          /\ messages'[Len(messages')].run = r
          /\ \E i \in 1..Len(messages') :
               messages'[i].run = r /\ messages'[i].sender = User
          /\ Cardinality(AITurns(messages', r)) = Len(runs[r].calls) - 1
          /\ notepadContent' = notepadContent
          /\ lastNotepadUpdateBy' = lastNotepadUpdateBy]_vars

\* an invocation has failed at its third call, after Cognito and Muse had each
\* spoken and the notepad had been written; the error entry is the last one
C37_Witness ==
  \E r \in RunIds :
    /\ runs[r].pc = "done" /\ ~runs[r].cancelled
    /\ runs[r].failed \/ runs[r].threw
    /\ Len(runs[r].calls) = 3
    /\ Cardinality(AITurns(messages, r)) = 2
    /\ lastNotepadUpdateBy # NoSender
    /\ notepadContent # INITIAL_NOTEPAD_CONTENT
    /\ messages[Len(messages)].sender = System
    /\ messages[Len(messages)].run = r

\* the spoken text the parser is left with: the text before the trailing
\* block, or the whole text when there is none, without its stop tags
SpokenResidue ==
  Trim(RemoveAll(IF TrailingBlock THEN BlockResidue ELSE TrimmedRaw,
                 DISCUSSION_COMPLETE_TAG))

\* the stop tag occurs in the text the spoken residue is taken from
StopTagSpoken ==
  HasStopTag(IF TrailingBlock THEN BlockResidue ELSE TrimmedRaw)

\* C38: when nothing is left as spoken text, the text the parser returns in
\* its place names what the response did without words, the notepad update,
\* or the update attempted with an empty content, and the suggestion to end
\* the discussion, each exactly when it occurred; it is the placeholder for no
\* additional text exactly when there was neither a block nor a stop tag.
C38_PlaceholderNamesSilentActions ==
  (parsedResponse # <<>> /\ SpokenResidue = <<>>)
  => LET said == parsedResponse[1].spokenText
         names(a) == \E k \in 1..Len(said) : said[k] = a
     IN /\ names(UpdatedNotepadText) <=> (TrailingBlock /\ BlockInner # <<>>)
        /\ names(EmptyNotepadText) <=> (TrailingBlock /\ BlockInner = <<>>)
        /\ names(SuggestedEndText) <=> StopTagSpoken
        /\ (said = NoTextPlaceholder) <=> (~TrailingBlock /\ ~StopTagSpoken)

\* a text that is a notepad block with a content after a stop tag, and no
\* word besides, has been parsed
C38_Witness ==
  /\ parsedResponse # <<>> /\ SpokenResidue = <<>>
  /\ TrailingBlock /\ BlockInner # <<>> /\ StopTagSpoken
  /\ parsedResponse[1].spokenText
       = <<"(AI ", UpdatedNotepadText, " and ", SuggestedEndText, ")">>

\* the number of turns an input of the turn-count field stands for
TurnsMeant(e) ==
  IF e.isNaN THEN DEFAULT_MANUAL_FIXED_TURNS
  ELSE IF e.value < MIN_MANUAL_FIXED_TURNS THEN MIN_MANUAL_FIXED_TURNS
  ELSE IF e.value > MAX_MANUAL_FIXED_TURNS THEN MAX_MANUAL_FIXED_TURNS
  ELSE e.value

\* C39: the number of fixed turns is at every moment between the minimum and
\* the maximum, 1 and 5: a change of the turn-count field sets it to the
\* number typed, raised to the minimum or lowered to the maximum when it lies
\* outside, and to the default, 2, when what was typed is not a number.
C39_FixedTurnsWithinRange ==
  /\ [](manualFixedTurns \in MIN_MANUAL_FIXED_TURNS..MAX_MANUAL_FIXED_TURNS)
  /\ [][\A e \in TurnInputs :
          handleManualFixedTurnsChange(e) => manualFixedTurns' = TurnsMeant(e)]_vars
  /\ [][manualFixedTurns' # manualFixedTurns
        => \E e \in TurnInputs : manualFixedTurns' = TurnsMeant(e)]_vars

\* an invocation is under way with the largest number of turns, and the
\* field has since been brought down to the smallest
C39_Witness ==
  /\ manualFixedTurns = MIN_MANUAL_FIXED_TURNS
  /\ \E r \in RunIds :
       /\ runs[r].pc \in GatewayAwaits
       /\ runs[r].maxTurns = MAX_MANUAL_FIXED_TURNS

\* liveness is checked with every pending call settling eventually
NextFair ==
  \/ /\ Quiescent
     /\ \E userInput \in UserInputs : handleSendMessage(userInput, FALSE)
  \/ Settles(FewResults)
  \/ handleClearChat
  \/ /\ Fresh
     /\ \E mode \in DiscussionMode : setDiscussionMode(mode)
  \/ /\ Fresh
     /\ \E e \in TurnInputs : handleManualFixedTurnsChange(e)

FairSpec == Init /\ [][NextFair]_vars /\ WF_vars(Settles(FewResults))

====
